---- MODULE Spec2Model ----
(***************************************************************************)
(* Model of src/main.rs: an actix-web server with three handlers          *)
(* (register, login, list_clientes) sharing one optional tokio_postgres   *)
(* Client behind Arc<Mutex<Option<Client>>>.  Every handler locks the     *)
(* mutex, looks at the slot, issues its statements and releases the lock  *)
(* when it returns its response.                                          *)
(***************************************************************************)
EXTENDS Integers, Sequences, FiniteSets, TLC

\* ---------------------------------------------------------------- bounds
NumTasks == 2      \* concurrent request tasks
MaxReqs  == 3      \* requests served in one behaviour

Tasks == 1..NumTasks

\* ---------------------------------------------------------- input domains
Nomes     == {"Ana", "Bob"}
Cpfs      == {"111.111.111-11", "222.222.222-22"}
Enderecos == {"Rua A"}
Emails    == {"ana@x.com", "bob@x.com"}
Passwords == {"p1", "p2"}

\* struct Cliente: the JSON body of POST /register
Cliente == [nome : Nomes, cpf : Cpfs, endereco : Enderecos,
            email : Emails, password : Passwords]

\* struct LoginRequest: the JSON body of POST /login
LoginRequest == [email : Emails, password : Passwords]

\* The register bodies the requests are drawn from: any two of them share the
\* email, the cpf or both, and two of them share the email with different
\* passwords and names.
RegisterBodies ==
    {c \in Cliente :
        \/ c.nome = "Ana" /\ c.cpf = "111.111.111-11" /\ c.email = "ana@x.com"
             /\ c.password = "p1"
        \/ c.nome = "Bob" /\ c.cpf = "111.111.111-11" /\ c.email = "bob@x.com"
             /\ c.password = "p2"
        \/ c.nome = "Bob" /\ c.cpf = "222.222.222-22" /\ c.email = "ana@x.com"
             /\ c.password = "p2"}

\* the request of a task: which handler the route selects, and its body
NoBody == [email |-> "", password |-> ""]
Requests ==
    {[kind |-> "register", body |-> c] : c \in RegisterBodies}
      \cup {[kind |-> "login", body |-> l] : l \in LoginRequest}
      \cup {[kind |-> "list", body |-> NoBody]}
NoRequest == [kind |-> "none", body |-> NoBody]

\* ------------------------------------------------------------- responses
\* struct ApiResponse, serialised as the body of a response with a status
ApiResponse(status, success, message) ==
    [status |-> status, body |-> [success |-> success, message |-> message]]

NoResponse == [status |-> 0, body |-> [success |-> FALSE, message |-> ""]]

EmailConflict   == ApiResponse(409, FALSE, "Email já cadastrado")
CpfConflict     == ApiResponse(409, FALSE, "CPF já cadastrado")
Registered      == ApiResponse(200, TRUE, "Cliente registrado com sucesso")
InsertError     == ApiResponse(500, FALSE, "Erro ao registrar cliente")
CpfCheckError   == ApiResponse(500, FALSE, "Erro ao verificar CPF")
EmailCheckError == ApiResponse(500, FALSE, "Erro ao verificar email")
Unavailable     == ApiResponse(503, FALSE, "Banco de dados não disponível")
LoginOk(row) ==
    [status |-> 200,
     body |-> [success |-> TRUE, message |-> "Login bem-sucedido",
               cliente |-> [id |-> row.id, nome |-> row.nome]]]
InvalidCredentials == ApiResponse(401, FALSE, "Email ou senha incorretos")
LoginError         == ApiResponse(500, FALSE, "Erro ao verificar credenciais")
ListError          == ApiResponse(500, FALSE, "Erro ao listar clientes")

\* chrono::NaiveDateTime::to_string of the created_at column
TimestampToString(ts) == <<"timestamp", ts>>

\* the JSON object list_clientes builds from one row of its query
ClienteJson(row) ==
    [id |-> row.id, nome |-> row.nome, cpf |-> row.cpf,
     endereco |-> row.endereco, email |-> row.email,
     created_at |-> TimestampToString(row.created_at)]

\* HttpResponse::Ok().json(clientes): the body is the array `clientes`
ListOk(rs) ==
    [status |-> 200,
     body |-> [clientes |-> [i \in 1..Len(rs) |-> ClienteJson(rs[i])]]]

\* ------------------------------------------------- the clientes table
\* Result<T, PgError> of a statement
Ok(v)  == [ok |-> TRUE, val |-> v]
Err    == [ok |-> FALSE, val |-> "PgError"]
Unset  == [ok |-> FALSE, val |-> "unset"]

\* SELECT EXISTS(SELECT 1 FROM clientes WHERE email = $1)
EmailExists(rs, email) == \E r \in rs : r.email = email

\* SELECT EXISTS(SELECT 1 FROM clientes WHERE cpf = $1)
CpfExists(rs, cpf) == \E r \in rs : r.cpf = cpf

\* faulty variant: a sequence that stops advancing after its first value
NextVal_Stuck(last) == IF last = 0 THEN 1 ELSE last

\* id SERIAL: the value the sequence hands out after `last`
NextVal(last) == last + 1

\* cpf ... UNIQUE, email ... UNIQUE: whether the table accepts the row
UniqueOk(rs, c) == \A r \in rs : r.cpf # c.cpf /\ r.email # c.email

\* faulty variant: the INSERT binds email and password to each other's column
NewRow_Swapped(id, ts, c) ==
    [id |-> id, nome |-> c.nome, cpf |-> c.cpf, endereco |-> c.endereco,
     email |-> c.password, password |-> c.email, created_at |-> ts]

\* the row INSERT INTO clientes (nome, cpf, endereco, email, password) adds;
\* id and created_at take their column defaults
NewRow(id, ts, c) ==
    [id |-> id, nome |-> c.nome, cpf |-> c.cpf, endereco |-> c.endereco,
     email |-> c.email, password |-> c.password, created_at |-> ts]

\* faulty variant: the login query compares the email only
SelectLogin_EmailOnly(rs, email, password) ==
    {[id |-> r.id, nome |-> r.nome] : r \in {x \in rs : x.email = email}}

\* faulty variant: the login query without its email condition
SelectLogin_PasswordOnly(rs, email, password) ==
    {[id |-> r.id, nome |-> r.nome] : r \in {x \in rs : x.password = password}}

\* faulty variant: the INSERT replaces the rows of the same nome
InsertRow_Replace(rs, row) == {r \in rs : r.nome # row.nome} \cup {row}

\* the table after the INSERT has added `row`
InsertRow(rs, row) == rs \cup {row}

\* SELECT id, nome FROM clientes WHERE email = $1 AND password = $2
SelectLogin(rs, email, password) ==
    {[id |-> r.id, nome |-> r.nome] :
        r \in {x \in rs : x.email = email /\ x.password = password}}

\* faulty variant: the list query reads the password column in place of cpf
ListColumns_Password(r) ==
    [id |-> r.id, nome |-> r.nome, cpf |-> r.password, endereco |-> r.endereco,
     email |-> r.email, created_at |-> r.created_at]

\* the columns SELECT id, nome, cpf, endereco, email, created_at reads
ListColumns(r) ==
    [id |-> r.id, nome |-> r.nome, cpf |-> r.cpf, endereco |-> r.endereco,
     email |-> r.email, created_at |-> r.created_at]

\* faulty variant: ... ORDER BY id DESC
RECURSIVE OrderById_Desc(_)
OrderById_Desc(rs) ==
    IF rs = {} THEN <<>>
    ELSE LET first == CHOOSE r \in rs : \A x \in rs : r.id >= x.id
         IN  <<ListColumns(first)>> \o OrderById_Desc(rs \ {first})

\* ... FROM clientes ORDER BY id
RECURSIVE OrderById(_)
OrderById(rs) ==
    IF rs = {} THEN <<>>
    ELSE LET first == CHOOSE r \in rs : \A x \in rs : r.id <= x.id
         IN  <<ListColumns(first)>> \o OrderById(rs \ {first})

\* faulty variant: the handler does not look at the slot
IsSome_Always(s) == TRUE

\* whether the Option<Client> in the mutex is Some(client)
IsSome(s) == s = "Some"

\* ------------------------------------------------------------- the state
VARIABLES
    env,           \* what main finds: is DATABASE_URL set, does connect succeed
    phase,         \* "boot" while main runs up to HttpServer::run, then "serving"
    slot,          \* client_option: "Some" or "None"
    connUp,        \* the spawned connection task is still driving the socket
    rows,          \* the rows of table clientes
    lastId,        \* last value handed out by the id sequence
    clock,         \* the store's CURRENT_TIMESTAMP
    holder,        \* task owning the MutexGuard (client_lock), 0 when free
    queue,         \* tasks suspended in db_client.lock().await, oldest first
    pc,            \* where each task is in its handler
    req,           \* the request each task is serving
    email_exists,  \* register's local email_exists
    cpf_exists,    \* register's local cpf_exists
    result,        \* the local `result` of register/login, the query result of list
    resp,          \* the HttpResponse the handler returned
    nstmt,         \* statements the task has issued for its current request
    reqCount,      \* requests accepted so far
    ticket,        \* history: the order number of each task's lock acquisition
    acquired,      \* history: number of lock acquisitions so far
    lastEffect,    \* history: ticket of the request that last issued a statement
    newId,         \* history: id of the row the task's INSERT added
    okRegs         \* history: registers answered 200, with the id of their row

vars == <<env, phase, slot, connUp, rows, lastId, clock, holder, queue, pc, req,
          email_exists, cpf_exists, result, resp, nstmt, reqCount,
          ticket, acquired, lastEffect, newId, okRegs>>

dbVars   == <<rows, lastId, clock>>
mainVars == <<env, phase, slot>>
histVars == <<ticket, acquired, lastEffect, newId, okRegs>>

\* A statement sent through the client fails once the connection is gone, and
\* may fail while it is up (the table was not created, a value does not fit
\* its column, the server rejects the statement).
StatementOutcomes == IF connUp THEN BOOLEAN ELSE {FALSE}

\* a table the store may already hold when the process starts
\* (CREATE TABLE IF NOT EXISTS keeps it)
OldRow == [id |-> 1, nome |-> "Ana", cpf |-> "111.111.111-11",
           endereco |-> "Rua A", email |-> "ana@x.com", password |-> "p1",
           created_at |-> 0]
InitialTables == {{}, {OldRow}}

Init ==
    /\ env \in [database_url : BOOLEAN, connect : BOOLEAN]
    /\ phase = "boot"
    /\ slot = "None"
    /\ connUp = FALSE
    /\ rows \in InitialTables
    /\ lastId = Cardinality(rows)
    /\ clock = 1
    /\ holder = 0
    /\ queue = <<>>
    /\ pc = [t \in Tasks |-> "idle"]
    /\ req = [t \in Tasks |-> NoRequest]
    /\ email_exists = [t \in Tasks |-> Unset]
    /\ cpf_exists = [t \in Tasks |-> Unset]
    /\ result = [t \in Tasks |-> Unset]
    /\ resp = [t \in Tasks |-> NoResponse]
    /\ nstmt = [t \in Tasks |-> 0]
    /\ reqCount = 0
    /\ ticket = [t \in Tasks |-> 0]
    /\ acquired = 0
    /\ lastEffect = 0
    /\ newId = [t \in Tasks |-> 0]
    /\ okRegs = {}

\* ------------------------------------------------------------------ main
\* faulty variant: main returns when it has no connection
main_FatalWithoutConnection ==
    /\ phase = "boot"
    /\ slot' = IF env.database_url /\ env.connect THEN "Some" ELSE "None"
    /\ connUp' = (env.database_url /\ env.connect)
    /\ phase' = IF env.database_url /\ env.connect THEN "serving" ELSE "exited"
    /\ UNCHANGED <<env, dbVars, holder, queue, pc, req, email_exists, cpf_exists,
                   result, resp, nstmt, reqCount, histVars>>

\* main, up to the construction of db_client: client_option is Some(client)
\* when DATABASE_URL is set and tokio_postgres::connect succeeds (whether or
\* not create_clientes_table then succeeds), None otherwise.
main ==
    /\ phase = "boot"
    /\ slot' = IF env.database_url /\ env.connect THEN "Some" ELSE "None"
    /\ connUp' = (env.database_url /\ env.connect)
    /\ phase' = "serving"
    /\ UNCHANGED <<env, dbVars, holder, queue, pc, req, email_exists, cpf_exists,
                   result, resp, nstmt, reqCount, histVars>>

\* faulty variant: the slot is emptied when the connection ends
connection_lost_ClearsSlot ==
    /\ phase = "serving"
    /\ connUp
    /\ connUp' = FALSE
    /\ slot' = "None"
    /\ UNCHANGED <<env, phase, dbVars, holder, queue, pc, req, email_exists,
                   cpf_exists, result, resp, nstmt, reqCount, histVars>>

\* the connection future ends (the socket broke): the client stays in the
\* slot, and every later statement fails
connection_lost ==
    /\ phase = "serving"
    /\ connUp
    /\ connUp' = FALSE
    /\ UNCHANGED <<mainVars, dbVars, holder, queue, pc, req, email_exists,
                   cpf_exists, result, resp, nstmt, reqCount, histVars>>

\* ------------------------------------------------------- the mutex
\* a request arrives: the route picks the handler, which calls
\* db_client.lock().await.  The tasks are interchangeable, so the request
\* goes to the first task that is not serving one.
accept(t, r) ==
    /\ phase = "serving"
    /\ pc[t] \in {"idle", "done"}
    /\ \A u \in Tasks : u < t => pc[u] \notin {"idle", "done"}
    /\ req' = [req EXCEPT ![t] = r]
    /\ reqCount' = reqCount + 1
    /\ pc' = [pc EXCEPT ![t] = "lock"]
    /\ queue' = Append(queue, t)
    /\ email_exists' = [email_exists EXCEPT ![t] = Unset]
    /\ cpf_exists' = [cpf_exists EXCEPT ![t] = Unset]
    /\ result' = [result EXCEPT ![t] = Unset]
    /\ resp' = [resp EXCEPT ![t] = NoResponse]
    /\ nstmt' = [nstmt EXCEPT ![t] = 0]
    /\ newId' = [newId EXCEPT ![t] = 0]
    /\ ticket' = [ticket EXCEPT ![t] = 0]
    /\ UNCHANGED <<mainVars, connUp, dbVars, holder, acquired, lastEffect, okRegs>>

request(t) ==
    /\ reqCount < MaxReqs
    /\ \E r \in Requests : accept(t, r)

\* faulty variant: a lock that does not wait for its holder
CanLock_NoExclusion(t) == queue # <<>> /\ Head(queue) = t

\* tokio::sync::Mutex hands the lock to the oldest waiter when it is free
CanLock(t) == holder = 0 /\ queue # <<>> /\ Head(queue) = t

lock(t) ==
    /\ pc[t] = "lock"
    /\ CanLock(t)
    /\ holder' = t
    /\ queue' = SelectSeq(queue, LAMBDA u : u # t)
    /\ pc' = [pc EXCEPT ![t] = "locked"]
    /\ acquired' = acquired + 1
    /\ ticket' = [ticket EXCEPT ![t] = acquired + 1]
    /\ UNCHANGED <<mainVars, connUp, dbVars, req, email_exists, cpf_exists,
                   result, resp, nstmt, reqCount, lastEffect, newId, okRegs>>

\* faulty variant: the guard outlives the handler
Return_KeepsLock(t, r) ==
    /\ resp' = [resp EXCEPT ![t] = r]
    /\ pc' = [pc EXCEPT ![t] = "done"]
    /\ holder' = holder
    /\ email_exists' = [email_exists EXCEPT ![t] = Unset]
    /\ cpf_exists' = [cpf_exists EXCEPT ![t] = Unset]
    /\ result' = [result EXCEPT ![t] = Unset]

\* the handler returns `r`: its locals are dropped, client_lock among them
Return(t, r) ==
    /\ resp' = [resp EXCEPT ![t] = r]
    /\ pc' = [pc EXCEPT ![t] = "done"]
    /\ holder' = IF holder = t THEN 0 ELSE holder
    /\ email_exists' = [email_exists EXCEPT ![t] = Unset]
    /\ cpf_exists' = [cpf_exists EXCEPT ![t] = Unset]
    /\ result' = [result EXCEPT ![t] = Unset]

\* the task sends one statement to the store
Statement(t) ==
    /\ nstmt' = [nstmt EXCEPT ![t] = @ + 1]
    /\ lastEffect' = ticket[t]

\* the else branch of `if let Some(client) = &*client_lock`, the same in the
\* three handlers
unavailable(t) ==
    /\ pc[t] = "locked"
    /\ ~IsSome(slot)
    /\ Return(t, Unavailable)
    /\ UNCHANGED <<mainVars, connUp, dbVars, queue, req, nstmt, reqCount, histVars>>

\* -------------------------------------------------------------- register
register_email_query(t) ==
    /\ pc[t] = "locked"
    /\ req[t].kind = "register"
    /\ IsSome(slot)
    /\ \E ok \in StatementOutcomes :
         email_exists' = [email_exists EXCEPT ![t] =
             IF ok THEN Ok(EmailExists(rows, req[t].body.email)) ELSE Err]
    /\ Statement(t)
    /\ pc' = [pc EXCEPT ![t] = "email_queried"]
    /\ UNCHANGED <<mainVars, connUp, dbVars, holder, queue, req, cpf_exists,
                   result, resp, reqCount, ticket, acquired, newId, okRegs>>

register_cpf_query(t) ==
    /\ pc[t] = "email_queried"
    /\ \E ok \in StatementOutcomes :
         cpf_exists' = [cpf_exists EXCEPT ![t] =
             IF ok THEN Ok(CpfExists(rows, req[t].body.cpf)) ELSE Err]
    /\ Statement(t)
    /\ pc' = [pc EXCEPT ![t] = "cpf_queried"]
    /\ UNCHANGED <<mainVars, connUp, dbVars, holder, queue, req, email_exists,
                   result, resp, reqCount, ticket, acquired, newId, okRegs>>

\* faulty variant: the cpf result is looked at before the email result
RegisterCheck_CpfFirst(ee, ce) ==
    IF ~ce.ok THEN CpfCheckError
    ELSE IF ce.val THEN CpfConflict
    ELSE IF ~ee.ok THEN EmailCheckError
    ELSE IF ee.val THEN EmailConflict
    ELSE NoResponse

\* faulty variant: the answer of the cpf query is not looked at
RegisterCheck_NoCpf(ee, ce) ==
    IF ~ee.ok THEN EmailCheckError
    ELSE IF ee.val THEN EmailConflict
    ELSE IF ~ce.ok THEN CpfCheckError
    ELSE NoResponse

\* `match email_exists`, up to the INSERT: the response of every arm that
\* returns without inserting, Unset when the INSERT is reached
RegisterCheck(ee, ce) ==
    IF ~ee.ok THEN EmailCheckError
    ELSE IF ee.val THEN EmailConflict
    ELSE IF ~ce.ok THEN CpfCheckError
    ELSE IF ce.val THEN CpfConflict
    ELSE NoResponse

register_reject(t) ==
    /\ pc[t] = "cpf_queried"
    /\ RegisterCheck(email_exists[t], cpf_exists[t]) # NoResponse
    /\ Return(t, RegisterCheck(email_exists[t], cpf_exists[t]))
    /\ UNCHANGED <<mainVars, connUp, dbVars, queue, req, nstmt, reqCount, histVars>>

register_insert(t) ==
    /\ pc[t] = "cpf_queried"
    /\ RegisterCheck(email_exists[t], cpf_exists[t]) = NoResponse
    /\ \E ok \in StatementOutcomes :
         IF ok /\ UniqueOk(rows, req[t].body)
         THEN /\ rows' = InsertRow(rows, NewRow(NextVal(lastId), clock, req[t].body))
              /\ lastId' = NextVal(lastId)
              /\ clock' = clock + 1
              /\ result' = [result EXCEPT ![t] = Ok(1)]
              /\ newId' = [newId EXCEPT ![t] = NextVal(lastId)]
         ELSE /\ rows' = rows
              \* a rejected INSERT has already drawn its id from the sequence
              /\ lastId' = IF ok THEN NextVal(lastId) ELSE lastId
              /\ clock' = clock
              /\ result' = [result EXCEPT ![t] = Err]
              /\ newId' = newId
    /\ Statement(t)
    /\ pc' = [pc EXCEPT ![t] = "inserted"]
    /\ UNCHANGED <<mainVars, connUp, holder, queue, req, email_exists,
                   cpf_exists, resp, reqCount, ticket, acquired, okRegs>>

register_respond(t) ==
    /\ pc[t] = "inserted"
    /\ Return(t, IF result[t].ok THEN Registered ELSE InsertError)
    /\ okRegs' = IF result[t].ok
                 THEN okRegs \cup {[email |-> req[t].body.email,
                                    password |-> req[t].body.password,
                                    nome |-> req[t].body.nome,
                                    id |-> newId[t]]}
                 ELSE okRegs
    /\ UNCHANGED <<mainVars, connUp, dbVars, queue, req, nstmt, reqCount, ticket, acquired,
                   lastEffect, newId>>

\* ----------------------------------------------------------------- login
\* client.query_opt: Ok(None) for no row, Ok(Some(row)) for one, an error
\* for more than one
QueryOpt(matches) ==
    IF Cardinality(matches) > 1 THEN Err ELSE Ok(matches)

login_query(t) ==
    /\ pc[t] = "locked"
    /\ req[t].kind = "login"
    /\ IsSome(slot)
    /\ \E ok \in StatementOutcomes :
         result' = [result EXCEPT ![t] =
             IF ok
             THEN QueryOpt(SelectLogin(rows, req[t].body.email, req[t].body.password))
             ELSE Err]
    /\ Statement(t)
    /\ pc' = [pc EXCEPT ![t] = "login_queried"]
    /\ UNCHANGED <<mainVars, connUp, dbVars, holder, queue, req, email_exists,
                   cpf_exists, resp, reqCount, ticket, acquired, newId, okRegs>>

\* `match result` of login
LoginResponse(res) ==
    IF ~res.ok THEN LoginError
    ELSE IF res.val # {} THEN LoginOk(CHOOSE row \in res.val : TRUE)
    ELSE InvalidCredentials

login_respond(t) ==
    /\ pc[t] = "login_queried"
    /\ Return(t, LoginResponse(result[t]))
    /\ UNCHANGED <<mainVars, connUp, dbVars, queue, req, nstmt, reqCount, histVars>>

\* --------------------------------------------------------- list_clientes
list_query(t) ==
    /\ pc[t] = "locked"
    /\ req[t].kind = "list"
    /\ IsSome(slot)
    /\ \E ok \in StatementOutcomes :
         result' = [result EXCEPT ![t] = IF ok THEN Ok(OrderById(rows)) ELSE Err]
    /\ Statement(t)
    /\ pc' = [pc EXCEPT ![t] = "list_queried"]
    /\ UNCHANGED <<mainVars, connUp, dbVars, holder, queue, req, email_exists,
                   cpf_exists, resp, reqCount, ticket, acquired, newId, okRegs>>

\* the match on the query result of list_clientes
ListResponse(res) == IF res.ok THEN ListOk(res.val) ELSE ListError

list_respond(t) ==
    /\ pc[t] = "list_queried"
    /\ Return(t, ListResponse(result[t]))
    /\ UNCHANGED <<mainVars, connUp, dbVars, queue, req, nstmt, reqCount, histVars>>

\* ------------------------------------------------------------------ spec
Next ==
    \/ main
    \/ connection_lost
    \/ \E t \in Tasks : request(t)
    \/ \E t \in Tasks : lock(t)
    \/ \E t \in Tasks : unavailable(t)
    \/ \E t \in Tasks : register_email_query(t)
    \/ \E t \in Tasks : register_cpf_query(t)
    \/ \E t \in Tasks : register_reject(t)
    \/ \E t \in Tasks : register_insert(t)
    \/ \E t \in Tasks : register_respond(t)
    \/ \E t \in Tasks : login_query(t)
    \/ \E t \in Tasks : login_respond(t)
    \/ \E t \in Tasks : list_query(t)
    \/ \E t \in Tasks : list_respond(t)

Spec == Init /\ [][Next]_vars

\* ======================================================================
\* Properties
\* ======================================================================
\* the positions of a handler between taking client_lock and returning
Holding == {"locked", "email_queried", "cpf_queried", "inserted",
            "login_queried", "list_queried"}

\* task t returns its response in this step
Returns(t) == pc[t] \in Holding /\ pc'[t] = "done"

\* task t leaves the point where register has both query results
Decides(t) == pc[t] = "cpf_queried" /\ pc'[t] # "cpf_queried"

Done(t, kind) == pc[t] = "done" /\ req[t].kind = kind

\* ----------------------------------------------------------------- C1
\* C1: once a register has answered 200 for (email, password, nome), every
\* login with that email and password whose query the store answers returns
\* 200 with that nome and the id of the row the register inserted.
C1_RegisterThenLogin ==
    [][\A t \in Tasks :
         (pc[t] = "login_queried" /\ Returns(t) /\ IsSome(slot) /\ result[t].ok)
           => \A g \in okRegs :
                (g.email = req[t].body.email /\ g.password = req[t].body.password)
                  => resp'[t] = LoginOk([id |-> g.id, nome |-> g.nome])]_vars

\* a login answered 200 for a customer registered in this run, whose id is
\* not 1 (a row was there before, or an id was lost to a failed INSERT),
\* while another request was served in between
C1_Witness ==
    \E t \in Tasks :
        /\ Done(t, "login")
        /\ resp[t].status = 200
        /\ acquired >= 3
        /\ \E g \in okRegs :
             /\ g.email = req[t].body.email
             /\ g.password = req[t].body.password
             /\ g.id = resp[t].body.cliente.id
             /\ g.nome = resp[t].body.cliente.nome
             /\ g.id > 1

\* ----------------------------------------------------------------- C2
\* C2: in every reachable state no two rows of clientes share the email, the
\* cpf or the id, and no row has an id the sequence has not yet handed out
\* (so an id is never handed out twice).
C2_UniqueRows ==
    /\ \A r1, r2 \in rows :
         r1 # r2 => /\ r1.email # r2.email
                    /\ r1.cpf # r2.cpf
                    /\ r1.id # r2.id
    /\ \A r \in rows : r.id >= 1 /\ r.id <= lastId

\* two rows are stored after a register was refused as a duplicate
C2_Witness ==
    /\ Cardinality(rows) >= 2
    /\ \E t \in Tasks : Done(t, "register") /\ resp[t].status = 409

\* ----------------------------------------------------------------- C3
\* C3 as stated: a register that finds the slot present and whose email is
\* stored answers 409 "Email já cadastrado".
C3_AsStated ==
    [][\A t \in Tasks :
         (Decides(t) /\ IsSome(slot) /\ EmailExists(rows, req[t].body.email))
           => (pc'[t] = "done" /\ resp'[t] = EmailConflict)]_vars

\* C3 (amended): a register that finds the slot present and whose email is
\* stored never inserts and never answers "CPF já cadastrado"; it answers 409
\* "Email já cadastrado" when the email query is answered, whether the cpf is
\* stored or not and whether the cpf query is answered or not, and 500
\* "Erro ao verificar email" when the email query fails.
C3_EmailConflictFirst ==
    [][\A t \in Tasks :
         (Decides(t) /\ IsSome(slot) /\ EmailExists(rows, req[t].body.email))
           => /\ pc'[t] = "done"
              /\ resp'[t] # CpfConflict
              /\ email_exists[t].ok => resp'[t] = EmailConflict
              /\ ~email_exists[t].ok => resp'[t] = EmailCheckError]_vars

\* a register was answered "Email já cadastrado" while its cpf is stored
\* too, in the row of another email
C3_Witness ==
    \E t \in Tasks :
        /\ Done(t, "register")
        /\ resp[t] = EmailConflict
        /\ \E r \in rows : r.cpf = req[t].body.cpf /\ r.email # req[t].body.email
        /\ \E r \in rows : r.email = req[t].body.email

\* ----------------------------------------------------------------- C4
\* C4 as stated: a register that finds the slot present, whose email is not
\* stored and whose cpf is, answers 409 "CPF já cadastrado" and inserts
\* nothing.
C4_AsStated ==
    [][\A t \in Tasks :
         (/\ Decides(t)
          /\ IsSome(slot)
          /\ ~EmailExists(rows, req[t].body.email)
          /\ CpfExists(rows, req[t].body.cpf))
           => (pc'[t] = "done" /\ resp'[t] = CpfConflict /\ rows' = rows)]_vars

\* C4 (amended): a register that finds the slot present, whose email is not
\* stored and whose cpf is, inserts nothing; it answers 409 "CPF já
\* cadastrado" when both existence queries are answered, and 500 when
\* either fails.
C4_CpfConflict ==
    [][\A t \in Tasks :
         (/\ Decides(t)
          /\ IsSome(slot)
          /\ ~EmailExists(rows, req[t].body.email)
          /\ CpfExists(rows, req[t].body.cpf))
           => /\ pc'[t] = "done"
              /\ rows' = rows
              /\ (email_exists[t].ok /\ cpf_exists[t].ok) => resp'[t] = CpfConflict
              /\ ~email_exists[t].ok => resp'[t] = EmailCheckError
              /\ (email_exists[t].ok /\ ~cpf_exists[t].ok)
                    => resp'[t] = CpfCheckError]_vars

\* a register was answered "CPF já cadastrado" and its email is still not
\* stored
C4_Witness ==
    \E t \in Tasks :
        /\ Done(t, "register")
        /\ resp[t] = CpfConflict
        /\ CpfExists(rows, req[t].body.cpf)
        /\ ~EmailExists(rows, req[t].body.email)

\* ----------------------------------------------------------------- C5
\* some row has exactly this email and this password
Matches(body) ==
    \E r \in rows : r.email = body.email /\ r.password = body.password

\* C5 as stated: a login answers 200 only for a row with exactly its email
\* and password, and every login that matches no row (email stored with
\* another password, or email not stored) answers 401 with the one body.
C5_AsStated ==
    [][\A t \in Tasks :
         (req[t].kind = "login" /\ Returns(t))
           => /\ resp'[t].status = 200 => Matches(req[t].body)
              /\ ~Matches(req[t].body) => resp'[t] = InvalidCredentials]_vars

\* C5 (amended): a login answers 200 only for a row with exactly its email
\* and password, carrying that row's id and nome; a login that matches no
\* row gets a response that is the same whether or not the email is stored:
\* 401 "Email ou senha incorretos" when the slot is present and the query is
\* answered, 503 when the slot is absent, 500 when the query fails.
C5_NoEnumeration ==
    [][\A t \in Tasks :
         (req[t].kind = "login" /\ Returns(t))
           => /\ resp'[t].status = 200 =>
                    \E r \in rows : /\ r.email = req[t].body.email
                                    /\ r.password = req[t].body.password
                                    /\ resp'[t] = LoginOk(r)
              /\ ~Matches(req[t].body) =>
                    resp'[t] = IF slot = "None" THEN Unavailable
                               ELSE IF result[t].ok THEN InvalidCredentials
                               ELSE LoginError]_vars

\* two logins were answered 401 with the same body, one for a stored email
\* with another password, one for an email that is not stored
C5_Witness ==
    \E t, u \in Tasks :
        /\ Done(t, "login") /\ Done(u, "login")
        /\ resp[t] = InvalidCredentials /\ resp[u] = InvalidCredentials
        /\ EmailExists(rows, req[t].body.email)
        /\ ~EmailExists(rows, req[u].body.email)

\* ----------------------------------------------------------------- C6
\* C6: while the slot is None no task issues a statement, no task is past
\* the look at the slot, and every response given is 503 "Banco de dados
\* não disponível".
C6_UnavailableWhenAbsent ==
    slot = "None" =>
        \A t \in Tasks :
            /\ nstmt[t] = 0
            /\ pc[t] \in {"idle", "lock", "locked", "done"}
            /\ pc[t] = "done" => resp[t] = Unavailable

\* with the slot None, a register and a list (or login) were both answered 503
C6_Witness ==
    /\ slot = "None"
    /\ \E t, u \in Tasks :
         /\ Done(t, "register") /\ resp[t] = Unavailable
         /\ pc[u] = "done" /\ req[u].kind \in {"login", "list"}
         /\ resp[u] = Unavailable

\* ----------------------------------------------------------------- C7
ListFields == {"id", "nome", "cpf", "endereco", "email", "created_at"}
StoredPasswords == {r.password : r \in rows}

\* C7: no response carries a password: a listed row has exactly the fields
\* id, nome, cpf, endereco, email, created_at and none of its texts is a
\* stored password; every other body has no password field, its message is
\* no stored password, and the cliente of a login has only id and nome.
C7_NoPassword ==
    \A t \in Tasks :
        pc[t] = "done" =>
            IF req[t].kind = "list" /\ resp[t].status = 200
            THEN \A i \in DOMAIN resp[t].body.clientes :
                    /\ DOMAIN resp[t].body.clientes[i] = ListFields
                    /\ \A f \in {"nome", "cpf", "endereco", "email"} :
                          resp[t].body.clientes[i][f] \notin StoredPasswords
            ELSE /\ "password" \notin DOMAIN resp[t].body
                 /\ resp[t].body.message \notin StoredPasswords
                 /\ "cliente" \in DOMAIN resp[t].body =>
                       /\ DOMAIN resp[t].body.cliente = {"id", "nome"}
                       /\ resp[t].body.cliente.nome \notin StoredPasswords

\* a list was answered with a stored row and a login was answered 200
C7_Witness ==
    \E t, u \in Tasks :
        /\ Done(t, "list") /\ resp[t].status = 200 /\ Len(resp[t].body.clientes) >= 1
        /\ Done(u, "login") /\ resp[u].status = 200

\* ----------------------------------------------------------------- C8
\* C8: a list answered 200 holds one object for every row stored when it is
\* answered, each row once, in strictly ascending id order.
C8_ListAll ==
    [][\A t \in Tasks :
         (req[t].kind = "list" /\ Returns(t) /\ resp'[t].status = 200)
           => LET b == resp'[t].body.clientes IN
              /\ Len(b) = Cardinality(rows)
              /\ \A r \in rows : \E i \in 1..Len(b) : b[i] = ClienteJson(r)
              /\ \A i \in 1..(Len(b) - 1) : b[i].id < b[i + 1].id]_vars

\* a list was answered with two rows or more
C8_Witness ==
    \E t \in Tasks :
        /\ Done(t, "list") /\ resp[t].status = 200
        /\ Len(resp[t].body.clientes) >= 2
        /\ Len(resp[t].body.clientes) = Cardinality(rows)

\* ----------------------------------------------------------------- C9
\* at most one task is between taking client_lock and returning, and it is
\* the holder
MutexInv ==
    \A t \in Tasks :
        pc[t] \in Holding =>
            /\ holder = t
            /\ \A u \in Tasks : pc[u] \in Holding => u = t

\* a statement is issued only while no other task is inside a handler, and
\* by a request that took the lock no earlier than the request of the
\* previous statement
StatementOrder ==
    \A t \in Tasks :
        nstmt'[t] > nstmt[t] =>
            /\ \A u \in Tasks : u # t => pc[u] \notin Holding
            /\ ticket[t] >= lastEffect

\* C9: store access is mutually exclusive: at most one handler at a time is
\* past db_client.lock(), no statement is issued while another request is
\* between its lock and its return, and statements follow the order in
\* which the requests took the lock.
C9_Serialized == [][MutexInv' /\ StatementOrder]_vars

\* a register has issued its two queries while another request waits for
\* the lock and an earlier request has been served
C9_Witness ==
    \E t, u \in Tasks :
        /\ pc[t] = "cpf_queried" /\ nstmt[t] = 2 /\ holder = t
        /\ pc[u] = "lock"
        /\ acquired >= 2

\* ---------------------------------------------------------------- C10
\* C10 as stated: whenever a statement of the request failed (register's
\* email query, cpf query or INSERT, login's query, list's query) the
\* response is 500.
C10_AsStated ==
    [][\A t \in Tasks :
         (/\ Returns(t)
          /\ \/ pc[t] = "cpf_queried" /\ (~email_exists[t].ok \/ ~cpf_exists[t].ok)
             \/ pc[t] \in {"inserted", "login_queried", "list_queried"}
                  /\ ~result[t].ok)
           => resp'[t].status = 500]_vars

\* what the code does: the failure of the cpf query is dropped when the
\* email query reports that the email is stored, and every other failed
\* statement gives 500
C10_ExceptStoredEmail ==
    [][\A t \in Tasks :
         (/\ Returns(t)
          /\ \/ pc[t] = "cpf_queried" /\ ~email_exists[t].ok
             \/ pc[t] = "cpf_queried" /\ ~cpf_exists[t].ok /\ ~email_exists[t].val
             \/ pc[t] \in {"inserted", "login_queried", "list_queried"}
                  /\ ~result[t].ok)
           => resp'[t].status = 500]_vars

\* ---------------------------------------------------------------- C11
\* C11: no step removes a row or changes a field of one, and the steps of
\* login and list_clientes leave the table, its id sequence and its clock
\* as they are.
C11_CreateOnly ==
    [][/\ \A r \in rows : r \in rows'
       /\ \A t \in Tasks :
            (req[t].kind \in {"login", "list"} /\ pc'[t] # pc[t])
              => dbVars' = dbVars]_vars

\* the rows registered in this run are all still stored, unchanged, after a
\* login and a list were answered and a second row was added
C11_Witness ==
    /\ okRegs # {}
    /\ Cardinality(rows) >= 2
    /\ \A g \in okRegs :
         \E r \in rows : /\ r.id = g.id /\ r.email = g.email
                         /\ r.password = g.password /\ r.nome = g.nome
    /\ \E t \in Tasks :
         pc[t] = "done" /\ req[t].kind \in {"login", "list"}
            /\ resp[t].status = 200

\* ---------------------------------------------------------------- C12
\* C12: once main has built db_client, no step changes the slot (or leaves
\* the serving phase).
C12_SlotWrittenOnce ==
    [][phase = "serving" => (slot' = slot /\ phase' = "serving")]_vars

\* the slot is still Some after the connection was lost and a request was
\* answered 500
C12_Witness ==
    /\ phase = "serving"
    /\ slot = "Some"
    /\ ~connUp
    /\ \E t \in Tasks : pc[t] = "done" /\ resp[t].status = 500 /\ nstmt[t] = 1

\* ---------------------------------------------------------------- C13
\* the four requests of the scenario, sent one after the other: register
\* Ana, register the same email with another cpf, login with another
\* password, login with Ana's password
Script ==
    << [kind |-> "register",
        body |-> [nome |-> "Ana", cpf |-> "111.111.111-11", endereco |-> "Rua A",
                  email |-> "ana@x.com", password |-> "p1"]],
       [kind |-> "register",
        body |-> [nome |-> "Bob", cpf |-> "222.222.222-22", endereco |-> "Rua A",
                  email |-> "ana@x.com", password |-> "p2"]],
       [kind |-> "login", body |-> [email |-> "ana@x.com", password |-> "p2"]],
       [kind |-> "login", body |-> [email |-> "ana@x.com", password |-> "p1"]] >>

\* the responses the scenario expects, in order
Expected ==
    << Registered, EmailConflict, InvalidCredentials,
       LoginOk([id |-> 1, nome |-> "Ana"]) >>

\* main has connected, the table is empty, no request has arrived
ScenarioInit ==
    /\ env = [database_url |-> TRUE, connect |-> TRUE]
    /\ phase = "serving"
    /\ slot = "Some"
    /\ connUp = TRUE
    /\ rows = {}
    /\ lastId = 0
    /\ clock = 1
    /\ holder = 0
    /\ queue = <<>>
    /\ pc = [t \in Tasks |-> "idle"]
    /\ req = [t \in Tasks |-> NoRequest]
    /\ email_exists = [t \in Tasks |-> Unset]
    /\ cpf_exists = [t \in Tasks |-> Unset]
    /\ result = [t \in Tasks |-> Unset]
    /\ resp = [t \in Tasks |-> NoResponse]
    /\ nstmt = [t \in Tasks |-> 0]
    /\ reqCount = 0
    /\ ticket = [t \in Tasks |-> 0]
    /\ acquired = 0
    /\ lastEffect = 0
    /\ newId = [t \in Tasks |-> 0]
    /\ okRegs = {}

\* the client sends the next request of the script once the previous one
\* is answered
scenario_request(t) ==
    /\ reqCount < Len(Script)
    /\ \A u \in Tasks : pc[u] \in {"idle", "done"}
    /\ accept(t, Script[reqCount + 1])

ScenarioNext ==
    \/ connection_lost
    \/ \E t \in Tasks : scenario_request(t)
    \/ \E t \in Tasks : lock(t)
    \/ \E t \in Tasks : register_email_query(t)
    \/ \E t \in Tasks : register_cpf_query(t)
    \/ \E t \in Tasks : register_reject(t)
    \/ \E t \in Tasks : register_insert(t)
    \/ \E t \in Tasks : register_respond(t)
    \/ \E t \in Tasks : login_query(t)
    \/ \E t \in Tasks : login_respond(t)

ScenarioSpec == ScenarioInit /\ [][ScenarioNext]_vars

\* the statements of the request that task t is about to answer were all
\* answered by the store
StatementsAnswered(t) ==
    CASE pc[t] = "cpf_queried" -> email_exists[t].ok /\ cpf_exists[t].ok
      [] pc[t] \in {"inserted", "login_queried", "list_queried"} -> result[t].ok
      [] OTHER -> TRUE

\* the first register of the script has stored Ana's row with id 1
AnaStored ==
    rows = {[id |-> 1, nome |-> "Ana", cpf |-> "111.111.111-11",
             endereco |-> "Rua A", email |-> "ana@x.com", password |-> "p1",
             created_at |-> 1]}

C14_StartupNonFatal ==
    ~(env.database_url /\ env.connect) =>
        /\ phase \in {"boot", "serving"}
        /\ phase = "boot" => ENABLED main
        /\ phase = "serving" =>
              /\ slot = "None"
              /\ \A t \in Tasks : pc[t] = "done" => resp[t] = Unavailable

\* the connection attempt failed at startup, and a register and a login or
\* list were then answered 503
C14_Witness ==
    /\ env.database_url /\ ~env.connect
    /\ phase = "serving"
    /\ \E t, u \in Tasks :
         /\ Done(t, "register") /\ resp[t].status = 503
         /\ pc[u] = "done" /\ req[u].kind \in {"login", "list"}
         /\ resp[u].status = 503

\* ---------------------------------------------------------------- C15
\* The server under load: main has run (with or without a connection), and
\* one request per task has arrived before any of them got the lock, so all
\* of them wait in db_client.lock().await, in task order. Any statement
\* may fail (StatementOutcomes); no further request arrives.
BurstInit ==
    /\ env \in [database_url : BOOLEAN, connect : BOOLEAN]
    /\ phase = "serving"
    /\ slot = IF env.database_url /\ env.connect THEN "Some" ELSE "None"
    /\ connUp = (env.database_url /\ env.connect)
    /\ rows \in InitialTables
    /\ lastId = Cardinality(rows)
    /\ clock = 1
    /\ holder = 0
    /\ queue = [i \in 1..NumTasks |-> i]
    /\ pc = [t \in Tasks |-> "lock"]
    /\ req \in [Tasks -> Requests]
    /\ email_exists = [t \in Tasks |-> Unset]
    /\ cpf_exists = [t \in Tasks |-> Unset]
    /\ result = [t \in Tasks |-> Unset]
    /\ resp = [t \in Tasks |-> NoResponse]
    /\ nstmt = [t \in Tasks |-> 0]
    /\ reqCount = NumTasks
    /\ ticket = [t \in Tasks |-> 0]
    /\ acquired = 0
    /\ lastEffect = 0
    /\ newId = [t \in Tasks |-> 0]
    /\ okRegs = {}

\* one step of the handler that task t runs: taking the lock, or what
\* follows the return of a store call
handler_step(t) ==
    \/ lock(t)
    \/ unavailable(t)
    \/ register_email_query(t)
    \/ register_cpf_query(t)
    \/ register_reject(t)
    \/ register_insert(t)
    \/ register_respond(t)
    \/ login_query(t)
    \/ login_respond(t)
    \/ list_query(t)
    \/ list_respond(t)

BurstNext ==
    \/ \E t \in Tasks : lock(t)
    \/ \E t \in Tasks : unavailable(t)
    \/ \E t \in Tasks : register_email_query(t)
    \/ \E t \in Tasks : register_cpf_query(t)
    \/ \E t \in Tasks : register_reject(t)
    \/ \E t \in Tasks : register_insert(t)
    \/ \E t \in Tasks : register_respond(t)
    \/ \E t \in Tasks : login_query(t)
    \/ \E t \in Tasks : login_respond(t)
    \/ \E t \in Tasks : list_query(t)
    \/ \E t \in Tasks : list_respond(t)

\* The runtime keeps polling a task that can go on, every store call
\* returns, and the mutex wakes its waiters oldest first: a handler step
\* that stays possible is taken.
BurstSpec ==
    /\ BurstInit
    /\ [][BurstNext]_vars
    /\ \A t \in Tasks : WF_vars(handler_step(t))

\* C15: every handler that waits for the lock gets it, every handler that
\* has it returns and no longer has it, and the step that returns a
\* response, whichever it is, frees the lock.
C15_Completes ==
    /\ \A t \in Tasks : (pc[t] = "lock") ~> (holder = t)
    /\ \A t \in Tasks : (holder = t) ~> (pc[t] = "done" /\ holder # t)
    /\ [][\A t \in Tasks : Returns(t) => (holder = t /\ holder' = 0)]_vars

\* every request of the burst has been answered, two of them on early
\* returns, and the lock is free
C15_Witness ==
    /\ \A t \in Tasks : pc[t] = "done"
    /\ holder = 0
    /\ queue = <<>>
    /\ acquired >= NumTasks
    /\ \E t, u \in Tasks : t # u /\ resp[t].status = 409 /\ resp[u].status = 401

\* ---------------------------------------------------------------- C17
\* the registers of the burst that carry value v in field key
BurstRegisters(key, v) ==
    {t \in Tasks : req[t].kind = "register" /\ req[t].body[key] = v}

\* C17 as stated: of two or more registers with the same email (or the same
\* cpf) that waited for the lock together and met no store failure, exactly
\* one is answered 200 and each other 409.
C17_AsStated ==
    (reqCount = NumTasks /\ \A t \in Tasks : pc[t] = "done") =>
        \A key \in {"email", "cpf"} : \A v \in Emails \cup Cpfs :
            LET G == BurstRegisters(key, v) IN
            (Cardinality(G) >= 2 /\ \A t \in G : resp[t].status \notin {500, 503})
              => /\ Cardinality({t \in G : resp[t].status = 200}) = 1
                 /\ \A t \in G : resp[t].status \in {200, 409}

\* C17 (amended): register reaches its INSERT only with an email and a cpf
\* that no row holds at that moment, so the INSERT never meets the unique
\* constraints; with its statements answered it is answered 200 when
\* neither was stored and 409 when one was; hence of the registers with the
\* same email (or cpf) at most one is answered 200, the first to take the
\* lock when its email and cpf are not stored yet, and none when they are.
C17_CheckThenInsert ==
    [][/\ \A t \in Tasks :
            (pc[t] = "cpf_queried" /\ pc'[t] = "inserted")
              => \A r \in rows : r.email # req[t].body.email
                                 /\ r.cpf # req[t].body.cpf
       /\ \A t \in Tasks :
            (Decides(t) /\ StatementsAnswered(t))
              => IF \A r \in rows : r.email # req[t].body.email
                                    /\ r.cpf # req[t].body.cpf
                 THEN pc'[t] = "inserted"
                 ELSE pc'[t] = "done" /\ resp'[t].status = 409
       /\ \A t \in Tasks :
            (pc[t] = "inserted" /\ Returns(t) /\ StatementsAnswered(t))
              => resp'[t].status = 200
       /\ \A t, u \in Tasks :
            (/\ t # u
             /\ pc'[t] = "done" /\ req'[t].kind = "register"
             /\ pc'[u] = "done" /\ req'[u].kind = "register"
             /\ \/ req'[t].body.email = req'[u].body.email
                \/ req'[t].body.cpf = req'[u].body.cpf)
              => ~(resp'[t].status = 200 /\ resp'[u].status = 200)]_vars

\* two registers with the same email waited for the lock together; one was
\* answered 200 and the other 409
C17_Witness ==
    /\ reqCount = NumTasks
    /\ \E t, u \in Tasks :
         /\ Done(t, "register") /\ Done(u, "register")
         /\ req[t].body.email = req[u].body.email
         /\ resp[t].status = 200
         /\ resp[u] = EmailConflict

\* ---------------------------------------------------------------- C16
\* C16 as stated: the first statement of register is the email query; the
\* cpf query is issued only once the email query has said that the email is
\* not stored, the INSERT only once both queries have said so, and a
\* register answered "Email já cadastrado" has issued one statement only.
C16_AsStated ==
    [][\A t \in Tasks :
         req[t].kind = "register" =>
           /\ (pc[t] = "locked" /\ nstmt'[t] > nstmt[t])
                => pc'[t] = "email_queried"
           /\ (pc[t] = "email_queried" /\ pc'[t] = "cpf_queried")
                => email_exists[t] = Ok(FALSE)
           /\ (pc[t] = "cpf_queried" /\ pc'[t] = "inserted")
                => email_exists[t] = Ok(FALSE) /\ cpf_exists[t] = Ok(FALSE)
           /\ (Returns(t) /\ resp'[t] = EmailConflict) => nstmt[t] = 1]_vars

\* ---------------------------------------------------------------- C18
\* the five fields of the request are those of the row
SameFields(row, body) ==
    /\ row.nome = body.nome
    /\ row.cpf = body.cpf
    /\ row.endereco = body.endereco
    /\ row.email = body.email
    /\ row.password = body.password

\* C18: the table changes only in the INSERT step of a register, which adds
\* one row with the five fields of its request and notes its id (newId, 0
\* until then); a register answered 200 has added such a row, which is
\* stored when it answers; a register answered otherwise is answered 409,
\* 500 or 503 and has added none; no returning step touches the table.
C18_StoreOnlyOnSuccess ==
    [][/\ rows' # rows =>
            \E t \in Tasks :
                /\ req[t].kind = "register"
                /\ pc[t] = "cpf_queried" /\ pc'[t] = "inserted"
                /\ \E row \in rows' :
                     /\ row \notin rows
                     /\ rows' = rows \cup {row}
                     /\ SameFields(row, req[t].body)
                     /\ newId'[t] = row.id
                     /\ \A r \in rows : r.id # row.id
       /\ \A t \in Tasks :
            newId'[t] # newId[t] =>
                \/ pc'[t] = "lock" /\ newId'[t] = 0
                \/ pc'[t] = "inserted" /\ rows' # rows /\ newId[t] = 0
       /\ \A t \in Tasks :
            (req[t].kind = "register" /\ Returns(t)) =>
                /\ rows' = rows
                /\ IF resp'[t].status = 200
                   THEN Cardinality({r \in rows : r.id = newId[t]
                                        /\ SameFields(r, req[t].body)}) = 1
                   ELSE /\ resp'[t].status \in {409, 500, 503}
                        /\ newId[t] = 0]_vars

\* a register answered 200 whose row is stored, and a register whose INSERT
\* failed, answered 500, next to it
C18_Witness ==
    \E t, u \in Tasks :
        /\ Done(t, "register") /\ resp[t] = Registered
        /\ \E r \in rows : r.id = newId[t] /\ SameFields(r, req[t].body)
        /\ Done(u, "register") /\ resp[u] = InsertError /\ nstmt[u] = 3
        /\ newId[u] = 0

\* ---------------------------------------------------------------- C19
\* the result of the first statement of the handler that task t runs
FirstResult(t) ==
    IF req[t].kind = "register" THEN email_exists[t] ELSE result[t]

\* C19: a 503 is returned only with the slot None, which main left so; when
\* main stored a client no response is a 503; losing the connection leaves
\* the slot as it is and, once serving, no connection is made; with the
\* connection lost every statement issued fails, and a handler whose first
\* statement failed answers 500.
C19_503OnlyWithoutSlot ==
    [][/\ \A t \in Tasks :
            (Returns(t) /\ resp'[t].status = 503)
              => slot = "None" /\ ~(env.database_url /\ env.connect)
       /\ \A t \in Tasks :
            (Returns(t) /\ env.database_url /\ env.connect)
              => resp'[t].status # 503
       /\ (connUp /\ ~connUp') => (slot = "Some" /\ slot' = "Some")
       /\ (phase = "serving" /\ ~connUp) => ~connUp'
       /\ \A t \in Tasks :
            (~connUp /\ nstmt'[t] > nstmt[t])
              => /\ slot = "Some"
                 /\ nstmt[t] = 0 => FirstResult(t)' = Err
                 /\ rows' = rows
       /\ \A t \in Tasks :
            (Returns(t) /\ nstmt[t] >= 1 /\ FirstResult(t) = Err)
              => resp'[t].status = 500]_vars

\* main stored a client, the connection was lost, and a register and a
\* login or list whose first statement failed were answered 500
C19_Witness ==
    /\ env.database_url /\ env.connect
    /\ slot = "Some"
    /\ ~connUp
    /\ \E t, u \in Tasks :
         /\ Done(t, "register") /\ resp[t] = EmailCheckError
         /\ Done(u, "login") /\ resp[u] = LoginError /\ nstmt[u] = 1

\* ---------------------------------------------------------------- C20
\* the rows that hold this email and this password
LoginMatches(l) ==
    {r \in rows : r.email = l.email /\ r.password = l.password}

\* C20: no email and password are those of two stored rows; a login whose
\* query is answered gets exactly the (id, nome) of the rows with its email
\* and password, one at most, and is answered 200 with that pair or, with no
\* such row, 401; while the connection is up its query can be answered.
C20_LoginUnique ==
    /\ [](\A l \in LoginRequest : Cardinality(LoginMatches(l)) <= 1)
    /\ [](\A t \in Tasks :
            (pc[t] = "locked" /\ req[t].kind = "login" /\ slot = "Some" /\ connUp)
              => ENABLED (login_query(t) /\ result'[t].ok))
    /\ [][\A t \in Tasks :
            /\ (pc[t] = "locked" /\ pc'[t] = "login_queried" /\ result'[t].ok)
                 => /\ result'[t].val =
                          {[id |-> r.id, nome |-> r.nome] :
                              r \in LoginMatches(req[t].body)}
                    /\ Cardinality(result'[t].val) <= 1
            /\ (pc[t] = "login_queried" /\ Returns(t) /\ result[t].ok)
                 => IF LoginMatches(req[t].body) = {}
                    THEN resp'[t] = InvalidCredentials
                    ELSE \E r \in LoginMatches(req[t].body) :
                            resp'[t] = LoginOk(r)]_vars

\* two stored rows share a password under different emails, and a login
\* with that password was answered 200
C20_Witness ==
    /\ \E r, q \in rows : r.password = q.password /\ r.email # q.email
    /\ \E t \in Tasks :
         /\ Done(t, "login") /\ resp[t].status = 200
         /\ \E r, q \in rows :
              /\ r # q
              /\ r.password = req[t].body.password
              /\ q.password = req[t].body.password

====
